---------------------------- MODULE Spec2Model ----------------------------
(***************************************************************************)
(* Model of app.py, the product-changeover dashboard of the rolling mill.  *)
(*                                                                         *)
(* A pandas DataFrame is a sequence of rows; a row is a function from      *)
(* column names to cell values.  Cell values of the catalogue are strings, *)
(* NaN is the empty cell and None is Python's None.  The marks of the      *)
(* column "Cambia" are written "Si" and "No".                              *)
(***************************************************************************)
EXTENDS Integers, Sequences, FiniteSets, TLC

VARIABLES
    df_ddp,          \* catalogue (Consolidado_Laminador.xlsx)
    df_tiempo,       \* changeover-time table (BBDD_Tiempo.xlsx)
    df_prog,         \* st.session_state.df_prog of the session, <<>> when absent
    seleccion,       \* <<producto_a, producto_b>> of the manual comparator
    tiempo_ab,       \* locals of mostrar_comparacion_productos
    tiempo_ba,
    tiempo_cambio,
    resumen_ddp,     \* result of comparar_productos shown by the manual comparator
    cache_comparar,  \* memo of @st.cache_data comparar_productos, by its arguments
    resumen,         \* raw transition list of mostrar_secuencia_programa
    df_resumen,      \* grouped transitions shown by mostrar_secuencia_programa
    df_cambios,      \* argument of agrupar_cambios_consecutivos
    df_agrupado,     \* its result
    aviso_tiempo,    \* st.success / st.warning about the changeover time
    vista,           \* what was rendered last
    df_desbaste,     \* groove table (Diagrama_Desbaste.xlsx)
    familias,        \* <<familia_a, familia_b>> given to comparar_desbaste
    df_desbaste_cmp, \* its result
    session_state,   \* st.session_state.df_prog of each of two concurrent sessions
    pagina,          \* what the last script run of each session rendered
    actor,           \* the session of the last script run
    archivo_programa, \* the value of the file uploader in that run
    df_maestranza,   \* df_resumen of mostrar_resumen_maestranza
    buffer_completo, \* sheets of the Excel export of mostrar_resumen_maestranza
    cambios_utilaje, \* changes found by mostrar_utilaje_programa
    metricas_utilaje, \* st.metric values of mostrar_utilaje_programa
    seleccion_utilaje, \* <<producto_a, producto_b, solo_diferencias>> of the utilaje comparison
    df_comparacion,  \* comparacion_data of comparar_utilaje_productos
    archivos,        \* the three Excel files under data/
    datos_base       \* the triple returned by cargar_datos, <<>> before the call

vars == <<df_ddp, df_tiempo, df_prog, seleccion, tiempo_ab, tiempo_ba,
          tiempo_cambio, resumen_ddp, cache_comparar, resumen, df_resumen,
          df_cambios, df_agrupado, aviso_tiempo, vista,
          df_desbaste, familias, df_desbaste_cmp,
          session_state, pagina, actor, archivo_programa,
          df_maestranza, buffer_completo,
          cambios_utilaje, metricas_utilaje, seleccion_utilaje, df_comparacion,
          archivos, datos_base>>

varsDesbaste == <<df_desbaste, familias, df_desbaste_cmp>>

varsSesion == <<session_state, pagina, actor, archivo_programa>>

varsMaestranza == <<df_maestranza, buffer_completo>>

varsUtilaje == <<cambios_utilaje, metricas_utilaje, seleccion_utilaje, df_comparacion>>

varsCarga == <<archivos, datos_base>>

-----------------------------------------------------------------------------
(* Bounds of the model *)

MaxFilas == 2        \* rows of the catalogue in the comparator specification
MaxTiempos == 2      \* rows of the time table
MaxPrograma == 6     \* rows of the uploaded program
MaxCambios == 3      \* rows of a transition table given to the grouping

-----------------------------------------------------------------------------
(* Values *)

NaN == "NaN"
None == "None"
SinTiempo == -1      \* None where the value is a number of minutes

Productos == {"X100", "Y200"}
Posiciones == {"M2", "M10"}
ColumnasDDP == <<"Producto", "Familia", "STD", "Codigo Canal", "Rodamiento Entrada">>

FamiliaDe(p) == IF p = "X100" THEN "F1" ELSE "F2"

Fila(p, s, cc, re) ==
    ("Producto" :> p) @@ ("Familia" :> FamiliaDe(p)) @@ ("STD" :> s)
        @@ ("Codigo Canal" :> cc) @@ ("Rodamiento Entrada" :> re)

Rango(s) == {s[i] : i \in 1..Len(s)}

SeqHasta(S, n) == UNION {[1..k -> S] : k \in 0..n}

-----------------------------------------------------------------------------
(* Python and pandas primitives *)

\* str < str of Python: by code point, a proper prefix first
Codigo(s) ==
    CASE s = "DU"  -> <<68, 85>>
      [] s = "M1"  -> <<77, 49>>
      [] s = "M2"  -> <<77, 50>>
      [] s = "M10" -> <<77, 49, 48>>
      [] s = "A1"  -> <<65, 49>>
      [] s = "D2"  -> <<68, 50>>
      [] s = "D10" -> <<68, 49, 48>>
      [] s = "Ancho" -> <<65, 110, 99, 104, 111>>
      [] OTHER     -> <<>>

RECURSIVE LexMenor(_, _)
LexMenor(a, b) ==
    IF b = <<>> THEN FALSE
    ELSE IF a = <<>> THEN TRUE
    ELSE IF Head(a) # Head(b) THEN Head(a) < Head(b)
    ELSE LexMenor(Tail(a), Tail(b))

StrMenor(s, t) == LexMenor(Codigo(s), Codigo(t))

\* sorted(S) for a set of strings
RECURSIVE sorted(_)
sorted(S) ==
    IF S = {} THEN <<>>
    ELSE LET m == CHOOSE x \in S : \A y \in S \ {x} : StrMenor(x, y)
         IN  <<m>> \o sorted(S \ {m})

\* a null test that forgets the empty cell
isna_soloNone(v) == v = None

\* pd.isna(v)
isna(v) == v = NaN \/ v = None

\* comparisons that ignore a value present on one side only
PyNeq_soloA(a, b) == a # NaN /\ a # None /\ a # b
PyNeq_ambos(a, b) == a # NaN /\ a # None /\ b # NaN /\ b # None /\ a # b

\* a != b of Python on cell values: NaN differs from everything, itself included
PyNeq(a, b) == IF a = NaN \/ b = NaN THEN TRUE ELSE a # b

\* df[df[col] == v]
Filtrar(df, col, v) == SelectSeq(df, LAMBDA r : r[col] # NaN /\ r[col] = v)

\* set(df[col])
Columna(df, col) == {df[i][col] : i \in 1..Len(df)}

\* df.columns: the columns of the rows; a table without rows has its full header
ColumnasDe(tabla, cabecera) == IF tabla = <<>> THEN cabecera ELSE DOMAIN tabla[1]

\* the table a frame is left as when helper columns are assigned to an alias of it
SinCopia(original, con_columnas) == con_columnas

\* x = df.copy(); x[col] = ...: the table df is left as
TrasCopia(original, con_columnas) == original

RECURSIVE Aplanar(_)
Aplanar(ss) == IF ss = <<>> THEN <<>> ELSE Head(ss) \o Aplanar(Tail(ss))

-----------------------------------------------------------------------------
(* comparar_productos *)

FilaResumen(df_a, df_b, pos, col) ==
    LET fila_a == Filtrar(df_a, "STD", pos)
        fila_b == Filtrar(df_b, "STD", pos)
        val_a == IF fila_a # <<>> /\ col \in Rango(ColumnasDDP) THEN fila_a[1][col] ELSE None
        val_b == IF fila_b # <<>> /\ col \in Rango(ColumnasDDP) THEN fila_b[1][col] ELSE None
    IN  IF col \notin Rango(ColumnasDDP) THEN <<>>
        ELSE IF isna(val_a) /\ isna(val_b) THEN <<>>
        ELSE << [Posicion |-> pos,
                 Componente |-> col,
                 ValorA |-> IF ~isna(val_a) THEN val_a ELSE "-",
                 ValorB |-> IF ~isna(val_b) THEN val_b ELSE "-",
                 Cambia |-> IF PyNeq(val_a, val_b) THEN "Si" ELSE "No"] >>

\* the comparison without the test of lines 104-105
comparar_sin_guarda(df_a, df_b, columnas) ==
    LET posiciones == sorted(Columna(df_a, "STD") \cup Columna(df_b, "STD"))
    IN  Aplanar([i \in 1..Len(posiciones) |->
            Aplanar([j \in 1..Len(columnas) |->
                FilaResumen(df_a, df_b, posiciones[i], columnas[j])])])

comparar_productos(df_a, df_b, columnas) ==
    IF df_a = <<>> \/ df_b = <<>> THEN <<>>
    ELSE LET posiciones == sorted(Columna(df_a, "STD") \cup Columna(df_b, "STD"))
         IN  Aplanar([i \in 1..Len(posiciones) |->
                 Aplanar([j \in 1..Len(columnas) |->
                     FilaResumen(df_a, df_b, posiciones[i], columnas[j])])])

-----------------------------------------------------------------------------
(* obtener_tiempo_cambio *)

FilaTiempo(o, d, m) ==
    ("Nombre STD Origen" :> o) @@ ("Nombre STD Destino" :> d) @@ ("Minutos Cambio" :> m)

\* a lookup that also answers with the reverse direction
obtener_tiempo_simetrico(tabla, producto_origen, producto_destino) ==
    LET resultado == SelectSeq(tabla, LAMBDA r :
                        {r["Nombre STD Origen"], r["Nombre STD Destino"]}
                            = {producto_origen, producto_destino})
    IN  IF resultado # <<>> THEN resultado[1]["Minutos Cambio"] ELSE SinTiempo

columnas_requeridas_tiempo ==
    {"Nombre STD Origen", "Nombre STD Destino", "Minutos Cambio"}

obtener_tiempo_cambio(tabla, producto_origen, producto_destino) ==
    IF ~(columnas_requeridas_tiempo \subseteq ColumnasDe(tabla, columnas_requeridas_tiempo))
    THEN SinTiempo      \* line 242: return None
    ELSE LET resultado == SelectSeq(tabla, LAMBDA r :
                             /\ r["Nombre STD Origen"] = producto_origen
                             /\ r["Nombre STD Destino"] = producto_destino)
         IN  IF resultado # <<>> THEN resultado[1]["Minutos Cambio"] ELSE SinTiempo

-----------------------------------------------------------------------------
(* comparar_desbaste *)

Todos == "(Todos)"

ColumnasDesbaste == {"Familia", "SubSTD", "Componente limpio", "Valor"}

FilaDesbaste(f, s, c, v) ==
    ("Familia" :> f) @@ ("SubSTD" :> s) @@ ("Componente limpio" :> c) @@ ("Valor" :> v)

columnas_requeridas_desbaste == {"SubSTD", "Componente limpio", "Valor"}

\* str(val).strip()
strip(val) == IF val = "10 " THEN "10" ELSE val

\* float(val_str); the numeric cell 10 and the text "10" both give 10.0
float(val_str) == IF val_str = "10" THEN "10.0" ELSE "ValueError"

Flotantes == {"10.0"}

limpiar_valor(val) ==
    IF isna(val) THEN None
    ELSE LET val_str == strip(val)
         IN  IF float(val_str) # "ValueError" THEN float(val_str) ELSE val_str

\* str(val_original)
str(val) == IF val = NaN THEN "nan" ELSE val

\* Series.apply(limpiar_valor): the results are converted to a float64 column,
\* where None becomes NaN, when they hold a float and no string
apply_limpiar_valor(valores) ==
    LET limpios == [i \in 1..Len(valores) |-> limpiar_valor(valores[i])]
        numerica == /\ \E i \in 1..Len(limpios) : limpios[i] \in Flotantes
                    /\ \A i \in 1..Len(limpios) : limpios[i] \in Flotantes \cup {None}
    IN  IF numerica
        THEN [i \in 1..Len(limpios) |-> IF limpios[i] = None THEN NaN ELSE limpios[i]]
        ELSE limpios

\* desb["Valor_limpio"] = desb["Valor"].apply(limpiar_valor), on the copy
ConValorLimpio(desb) ==
    LET limpios == apply_limpiar_valor([i \in 1..Len(desb) |-> desb[i]["Valor"]])
    IN  [i \in 1..Len(desb) |-> desb[i] @@ ("Valor_limpio" :> limpios[i])]

\* a side that takes the sentinel for the name of a family
LadoLiteral(tabla, familia) == Filtrar(tabla, "Familia", familia)

\* lines 152-160: the rows of the family, or the whole table for "(Todos)"
LadoDesbaste(tabla, familia) ==
    IF familia # Todos THEN Filtrar(tabla, "Familia", familia) ELSE tabla

\* set(zip(desb["SubSTD"], desb["Componente limpio"]))
pares_de(desb) == {<<desb[i]["SubSTD"], desb[i]["Componente limpio"]>> : i \in 1..Len(desb)}

\* tuple < tuple of Python
ParMenor(p, q) == StrMenor(p[1], q[1]) \/ (p[1] = q[1] /\ StrMenor(p[2], q[2]))

\* sorted(S) for a set of pairs of strings
RECURSIVE sorted_pares(_)
sorted_pares(S) ==
    IF S = {} THEN <<>>
    ELSE LET m == CHOOSE x \in S : \A y \in S \ {x} : ParMenor(x, y)
         IN  <<m>> \o sorted_pares(S \ {m})

\* lines 192-221: the body of the loop over todos_pares
FilaResumenDesbaste(desb_a, desb_b, substd, comp) ==
    LET val_a_df == SelectSeq(desb_a, LAMBDA r :
                        r["SubSTD"] = substd /\ r["Componente limpio"] = comp)
        val_b_df == SelectSeq(desb_b, LAMBDA r :
                        r["SubSTD"] = substd /\ r["Componente limpio"] = comp)
        val_a_limpio == IF val_a_df # <<>> THEN val_a_df[1]["Valor_limpio"] ELSE None
        val_b_limpio == IF val_b_df # <<>> THEN val_b_df[1]["Valor_limpio"] ELSE None
        val_a_original == IF val_a_df # <<>> THEN val_a_df[1]["Valor"] ELSE None
        val_b_original == IF val_b_df # <<>> THEN val_b_df[1]["Valor"] ELSE None
        cambia == IF val_a_limpio = None \/ val_b_limpio = None THEN TRUE
                  ELSE PyNeq(val_a_limpio, val_b_limpio)
    IN  IF val_a_limpio = None /\ val_b_limpio = None THEN <<>>
        ELSE << [Posicion |-> substd,
                 Componente |-> comp,
                 ValorA |-> IF val_a_original # None THEN str(val_a_original) ELSE "-",
                 ValorB |-> IF val_b_original # None THEN str(val_b_original) ELSE "-",
                 Cambia |-> IF cambia THEN "Si" ELSE "No"] >>

\* lines 151-223, after the test of equal families
CuerpoDesbaste(tabla, familia_a, familia_b) ==
    LET columnas == ColumnasDe(tabla, ColumnasDesbaste)
    IN  IF "Familia" \notin columnas /\ (familia_a # Todos \/ familia_b # Todos)
        THEN <<>>       \* KeyError, caught at line 232
        ELSE IF ~(columnas_requeridas_desbaste \subseteq columnas)
        THEN <<>>       \* line 166
        ELSE LET desb_a == ConValorLimpio(LadoDesbaste(tabla, familia_a))
                 desb_b == ConValorLimpio(LadoDesbaste(tabla, familia_b))
                 todos_pares == sorted_pares(pares_de(desb_a) \cup pares_de(desb_b))
             IN  Aplanar([k \in 1..Len(todos_pares) |->
                     FilaResumenDesbaste(desb_a, desb_b,
                                         todos_pares[k][1], todos_pares[k][2])])

\* a comparison that does its work for equal families too
comparar_sin_atajo(tabla, familia_a, familia_b) ==
    CuerpoDesbaste(tabla, familia_a, familia_b)

comparar_desbaste(tabla, familia_a, familia_b) ==
    IF familia_a = familia_b THEN <<>>
    ELSE CuerpoDesbaste(tabla, familia_a, familia_b)

\* the groove table after the call: the helper column "Valor_limpio" is
\* assigned to desb_a and desb_b, which for "(Todos)" are copies of the table
DesbasteTras(tabla, familia_a, familia_b) ==
    IF /\ familia_a # familia_b
       /\ familia_a = Todos \/ familia_b = Todos
       /\ columnas_requeridas_desbaste \subseteq ColumnasDe(tabla, ColumnasDesbaste)
    THEN TrasCopia(tabla, ConValorLimpio(tabla))
    ELSE tabla

\* a call of comparar_desbaste with any two family arguments
CompararDesbaste(familia_a, familia_b) ==
    /\ familias' = <<familia_a, familia_b>>
    /\ df_desbaste' = DesbasteTras(df_desbaste, familia_a, familia_b)
    /\ df_desbaste_cmp' = comparar_desbaste(df_desbaste, familia_a, familia_b)
    /\ vista' = "desbaste"
    /\ UNCHANGED <<df_ddp, df_tiempo, df_prog, seleccion, tiempo_ab, tiempo_ba,
                   tiempo_cambio, resumen_ddp, cache_comparar, resumen, df_resumen,
                   df_cambios, df_agrupado, aviso_tiempo>>
    /\ UNCHANGED varsSesion
    /\ UNCHANGED varsMaestranza
    /\ UNCHANGED varsUtilaje
    /\ UNCHANGED varsCarga

-----------------------------------------------------------------------------
(* Manual comparator: mostrar_comparador_manual, mostrar_comparacion_productos *)

columnas_ddp ==
    SelectSeq(ColumnasDDP, LAMBDA col : col \notin {"STD", "Producto", "Familia"})

\* no fallback to the reverse direction
TiempoSoloDirecto(t_ab, t_ba) == t_ab

\* tiempo_cambio = tiempo_ab if tiempo_ab is not None else tiempo_ba
TiempoDisponible(t_ab, t_ba) == IF t_ab # SinTiempo THEN t_ab ELSE t_ba

\* if tiempo_cambio: (None and 0 are falsy)
AvisoTiempo(t) == IF t # SinTiempo /\ t # 0 THEN "registrado" ELSE "no registrado"

mostrar_comparacion_productos(producto_a, producto_b) ==
    LET df_a == Filtrar(df_ddp, "Producto", producto_a)
        df_b == Filtrar(df_ddp, "Producto", producto_b)
        t_ab == obtener_tiempo_cambio(df_tiempo, producto_a, producto_b)
        t_ba == obtener_tiempo_cambio(df_tiempo, producto_b, producto_a)
        clave == <<df_a, df_b, columnas_ddp>>
        res == IF clave \in DOMAIN cache_comparar
               THEN cache_comparar[clave]
               ELSE comparar_productos(df_a, df_b, columnas_ddp)
    IN  IF df_a = <<>> \/ df_b = <<>>
        THEN /\ vista' = "sin datos"
             /\ UNCHANGED <<tiempo_ab, tiempo_ba, tiempo_cambio, aviso_tiempo,
                            resumen_ddp, cache_comparar, familias, df_desbaste_cmp>>
        ELSE /\ tiempo_ab' = t_ab
             /\ familias' = <<df_a[1]["Familia"], df_b[1]["Familia"]>>
             /\ df_desbaste_cmp' = comparar_desbaste(df_desbaste, df_a[1]["Familia"],
                                                     df_b[1]["Familia"])
             /\ tiempo_ba' = t_ba
             /\ tiempo_cambio' = TiempoDisponible(t_ab, t_ba)
             /\ aviso_tiempo' = AvisoTiempo(TiempoDisponible(t_ab, t_ba))
             /\ cache_comparar' = (clave :> res) @@ cache_comparar
             /\ resumen_ddp' = res
             /\ vista' = "comparacion"

\* The two product select boxes offer the products of the catalogue
ComparadorManual(producto_a, producto_b) ==
    /\ producto_a \in Columna(df_ddp, "Producto")
    /\ producto_b \in Columna(df_ddp, "Producto")
    /\ seleccion' = <<producto_a, producto_b>>
    /\ IF producto_a = producto_b
       THEN /\ vista' = "mismo producto"
            /\ UNCHANGED <<tiempo_ab, tiempo_ba, tiempo_cambio, aviso_tiempo,
                           resumen_ddp, cache_comparar, familias, df_desbaste_cmp>>
       ELSE mostrar_comparacion_productos(producto_a, producto_b)
    /\ UNCHANGED <<df_ddp, df_tiempo, df_prog, resumen, df_resumen,
                   df_cambios, df_agrupado, df_desbaste>>
    /\ UNCHANGED varsSesion
    /\ UNCHANGED varsMaestranza
    /\ UNCHANGED varsUtilaje
    /\ UNCHANGED varsCarga

-----------------------------------------------------------------------------
(* agrupar_cambios_consecutivos *)

columnas_requeridas == <<"Producto Origen", "Producto Destino">>

\* the columns aggregated with "first", in the order of columnas_posibles
columnas_posibles ==
    <<"Secuencia", "Familia", "Producto Origen", "Producto Destino",
      "Tiempo estimado", "Cambios Codigo Canal">>

\* the null cell of a column of the transition table
NuloEn(col, v) == col = "Tiempo estimado" /\ v = SinTiempo

\* (df[cols] != df[cols].shift()).any(axis=1): the first row differs from the shift
CambiaGrupo(df, i) ==
    \/ i = 1
    \/ \E k \in 1..Len(columnas_requeridas) :
          df[i][columnas_requeridas[k]] # df[i - 1][columnas_requeridas[k]]

\* .cumsum()
Grupo(df, i) == Cardinality({j \in 1..i : CambiaGrupo(df, j)})

\* a "last" aggregation
Ultimo(filas, col) ==
    LET noNulos == SelectSeq(filas, LAMBDA r : ~NuloEn(col, r[col]))
    IN  IF noNulos = <<>> THEN filas[1][col] ELSE noNulos[Len(noNulos)][col]

\* GroupBy.first: the first non-null value of the column in the group
Primero(filas, col) ==
    LET noNulos == SelectSeq(filas, LAMBDA r : ~NuloEn(col, r[col]))
    IN  IF noNulos = <<>> THEN filas[1][col] ELSE noNulos[1][col]

FilaAgrupada(df, g) ==
    LET indices == {i \in 1..Len(df) : Grupo(df, i) = g}
        filas == [k \in 1..Cardinality(indices) |->
                    df[CHOOSE i \in indices :
                          Cardinality({j \in indices : j < i}) = k - 1]]
    IN  [col \in {"Grupo"} \cup (Rango(columnas_posibles) \cap DOMAIN df[1]) |->
            IF col = "Grupo" THEN g ELSE Primero(filas, col)]

agrupar_cambios_consecutivos(df) ==
    IF df = <<>> THEN df
    ELSE IF ~(Rango(columnas_requeridas) \subseteq DOMAIN df[1]) THEN df
    ELSE [g \in 1..Grupo(df, Len(df)) |-> FilaAgrupada(df, g)]

-----------------------------------------------------------------------------
(* Sequence analysis: mostrar_secuencia_programa *)

FilaPrograma(p) == ("Nombre STD" :> p)

\* lines 585-599: rows of the origin whose position the destination also has
\* and whose "Codigo Canal" compares unequal
CambiosCodigoCanal(origen, destino) ==
    LET df_a == Filtrar(df_ddp, "Producto", origen)
        df_b == Filtrar(df_ddp, "Producto", destino)
    IN  IF df_a # <<>> /\ df_b # <<>> /\ "Codigo Canal" \in Rango(ColumnasDDP)
        THEN Cardinality({i \in 1..Len(df_a) :
                 LET matching_b == Filtrar(df_b, "STD", df_a[i]["STD"])
                 IN  /\ matching_b # <<>>
                     /\ PyNeq(df_a[i]["Codigo Canal"], matching_b[1]["Codigo Canal"])})
        ELSE 0

\* lines 601-607
FamiliaProducto(p) ==
    LET filas == Filtrar(df_ddp, "Producto", p)
    IN  IF filas # <<>> THEN filas[1]["Familia"] ELSE "N/A"

\* line 583
TiempoEstimado(origen, destino) == obtener_tiempo_cambio(df_tiempo, origen, destino)

\* lines 609-616; i is the 0-based index of the origin row
FilaCambio(i, origen, destino) ==
    ("Secuencia" :> i + 1)
        @@ ("Familia" :> <<FamiliaProducto(origen), "->", FamiliaProducto(destino)>>)
        @@ ("Producto Origen" :> origen)
        @@ ("Producto Destino" :> destino)
        @@ ("Tiempo estimado" :> TiempoEstimado(origen, destino))
        @@ ("Cambios Codigo Canal" :> CambiosCodigoCanal(origen, destino))

\* a walk that emits every adjacent pair of rows
CambiosSinSalto(prog) ==
    [k \in 1..(Len(prog) - 1) |->
        FilaCambio(k - 1, prog[k]["Nombre STD"], prog[k + 1]["Nombre STD"])]

\* a walk that compares every row with the first one
CambiosDesdePrimero(prog) ==
    Aplanar([k \in 1..(Len(prog) - 1) |->
        IF prog[1]["Nombre STD"] = prog[k + 1]["Nombre STD"] THEN <<>>
        ELSE <<FilaCambio(k - 1, prog[1]["Nombre STD"], prog[k + 1]["Nombre STD"])>>])

\* a walk that ends at the first transition with a product outside the catalogue
CambiosHastaDesconocido(prog) ==
    LET fuera == {k \in 1..(Len(prog) - 1) :
                    /\ prog[k]["Nombre STD"] # prog[k + 1]["Nombre STD"]
                    /\ \/ Filtrar(df_ddp, "Producto", prog[k]["Nombre STD"]) = <<>>
                       \/ Filtrar(df_ddp, "Producto", prog[k + 1]["Nombre STD"]) = <<>>}
        limite == IF fuera = {} THEN Len(prog) - 1
                  ELSE (CHOOSE k \in fuera : \A j \in fuera : k <= j) - 1
    IN  Aplanar([k \in 1..limite |->
            IF prog[k]["Nombre STD"] = prog[k + 1]["Nombre STD"] THEN <<>>
            ELSE <<FilaCambio(k - 1, prog[k]["Nombre STD"], prog[k + 1]["Nombre STD"])>>])

\* lines 572-616: for i in range(len(df_prog) - 1)
CambiosDePrograma(prog) ==
    Aplanar([k \in 1..(Len(prog) - 1) |->
        IF prog[k]["Nombre STD"] = prog[k + 1]["Nombre STD"] THEN <<>>
        ELSE <<FilaCambio(k - 1, prog[k]["Nombre STD"], prog[k + 1]["Nombre STD"])>>])

\* lines 644-684: every expander compares the two products of its block through
\* the memoized comparar_productos
RECURSIVE CacheTrasDetalle(_, _)
CacheTrasDetalle(cache, bloques) ==
    IF bloques = <<>> THEN cache
    ELSE LET df_a_cmp == Filtrar(df_ddp, "Producto", Head(bloques)["Producto Origen"])
             df_b_cmp == Filtrar(df_ddp, "Producto", Head(bloques)["Producto Destino"])
             clave == <<df_a_cmp, df_b_cmp, columnas_ddp>>
         IN  IF df_a_cmp # <<>> /\ df_b_cmp # <<>> /\ clave \notin DOMAIN cache
             THEN CacheTrasDetalle(
                      (clave :> comparar_productos(df_a_cmp, df_b_cmp, columnas_ddp)) @@ cache,
                      Tail(bloques))
             ELSE CacheTrasDetalle(cache, Tail(bloques))

\* tab 2 of main, offered once a program is in the session
SecuenciaPrograma ==
    /\ df_prog # <<>>
    /\ LET filas == CambiosDePrograma(df_prog)
       IN  /\ resumen' = filas
           /\ IF filas = <<>>
              THEN /\ vista' = "sin cambios"
                   /\ UNCHANGED <<df_resumen, cache_comparar>>
              ELSE /\ df_resumen' = agrupar_cambios_consecutivos(filas)
                   /\ cache_comparar' =
                          CacheTrasDetalle(cache_comparar, agrupar_cambios_consecutivos(filas))
                   /\ vista' = "secuencia"
    /\ UNCHANGED <<df_ddp, df_tiempo, df_prog, seleccion, tiempo_ab, tiempo_ba,
                   tiempo_cambio, aviso_tiempo, resumen_ddp, df_cambios, df_agrupado,
                   df_desbaste, familias, df_desbaste_cmp>>
    /\ UNCHANGED varsSesion
    /\ UNCHANGED varsMaestranza
    /\ UNCHANGED varsUtilaje
    /\ UNCHANGED varsCarga

\* the argument after the call: "Grupo" is assigned to df.copy() (lines 265-266)
CambiosTras(df) ==
    IF df = <<>> \/ ~(Rango(columnas_requeridas) \subseteq DOMAIN df[1]) THEN df
    ELSE TrasCopia(df, [i \in 1..Len(df) |-> ("Grupo" :> Grupo(df, i)) @@ df[i]])

\* agrupar_cambios_consecutivos applied to a table of transitions
Agrupar ==
    /\ vista = "inicio"
    /\ df_agrupado' = agrupar_cambios_consecutivos(df_cambios)
    /\ df_cambios' = CambiosTras(df_cambios)
    /\ vista' = "agrupado"
    /\ UNCHANGED <<df_ddp, df_tiempo, df_prog, seleccion, tiempo_ab, tiempo_ba,
                   tiempo_cambio, aviso_tiempo, resumen_ddp, cache_comparar,
                   resumen, df_resumen,
                   df_desbaste, familias, df_desbaste_cmp>>
    /\ UNCHANGED varsSesion
    /\ UNCHANGED varsMaestranza
    /\ UNCHANGED varsUtilaje
    /\ UNCHANGED varsCarga

-----------------------------------------------------------------------------
(* mostrar_resumen_maestranza *)

\* a grouping by product wherever its rows are, not by consecutive run
GrupoPorProducto(prog, i) ==
    Cardinality({prog[j]["Nombre STD"] : j \in 1..i})

\* (df_prog["Nombre STD"] != df_prog["Nombre STD"].shift()).cumsum()
GrupoPrograma(prog, i) ==
    Cardinality({j \in 1..i : j = 1 \/ prog[j]["Nombre STD"] # prog[j - 1]["Nombre STD"]})

\* df_prog["Grupo"] = ...
ConGrupo(prog) == [i \in 1..Len(prog) |-> ("Grupo" :> GrupoPrograma(prog, i)) @@ prog[i]]

RECURSIVE Suma(_)
Suma(numeros) == IF numeros = <<>> THEN 0 ELSE Head(numeros) + Suma(Tail(numeros))

\* groupby(["Grupo", "Nombre STD"]).agg({"PROGR": "sum"}), renamed
df_programa(prog) ==
    [g \in 1..(IF prog = <<>> THEN 0 ELSE GrupoPrograma(prog, Len(prog))) |->
        LET filas == SelectSeq(ConGrupo(prog), LAMBDA r : r["Grupo"] = g)
        IN  ("Nombre STD" :> filas[1]["Nombre STD"])
                @@ ("Toneladas Programadas" :>
                        Suma([k \in 1..Len(filas) |-> filas[k]["PROGR"]]))]

posiciones_deseadas == <<"M1", "M2", "M3", "M4", "A1", "A2", "A3", "A4", "A5", "A6">>

\* rows of the wanted positions with a "Codigo Canal"
df_canal_unico(ddp) ==
    SelectSeq(ddp, LAMBDA r :
        r["STD"] \in Rango(posiciones_deseadas) /\ ~isna(r["Codigo Canal"]))

\* the cell of the pivot: the first "Codigo Canal" of (Producto, STD), NaN without
CanalPivot(ddp, producto, std) ==
    LET filas == SelectSeq(df_canal_unico(ddp), LAMBDA r :
                     r["Producto"] = producto /\ r["STD"] = std)
    IN  IF filas = <<>> THEN NaN ELSE filas[1]["Codigo Canal"]

\* lines 709-755: tonnage per block and one column per position of the pivot
ResumenMaestranza(ddp, prog) ==
    LET programa == df_programa(prog)
        columnas == Columna(df_canal_unico(ddp), "STD")
    IN  [g \in 1..Len(programa) |->
            programa[g] @@ [std \in columnas |->
                               CanalPivot(ddp, programa[g]["Nombre STD"], std)]]

SinExportar == [Resumen_Maestranza |-> <<>>, Programa_Completo |-> <<>>]

\* the maestranza tab, with the sheets of its Excel download
MaestranzaPrograma ==
    /\ df_prog # <<>>
    /\ df_prog' = TrasCopia(df_prog, ConGrupo(df_prog))
    /\ IF "PROGR" \notin DOMAIN df_prog[1]
       THEN /\ vista' = "maestranza sin PROGR"
            /\ UNCHANGED <<df_maestranza, buffer_completo>>
       ELSE /\ df_maestranza' = ResumenMaestranza(df_ddp, df_prog)
            /\ buffer_completo' = [Resumen_Maestranza |-> ResumenMaestranza(df_ddp, df_prog),
                                   Programa_Completo |-> df_prog']
            /\ vista' = "maestranza"
    /\ UNCHANGED <<df_ddp, df_tiempo, seleccion, tiempo_ab, tiempo_ba,
                   tiempo_cambio, resumen_ddp, cache_comparar, resumen, df_resumen,
                   df_cambios, df_agrupado, aviso_tiempo,
                   df_desbaste, familias, df_desbaste_cmp>>
    /\ UNCHANGED varsSesion
    /\ UNCHANGED varsUtilaje
    /\ UNCHANGED varsCarga

-----------------------------------------------------------------------------
(* Utilaje: mostrar_analisis_utilaje, mostrar_utilaje_programa,
   comparar_utilaje_productos *)

componentes_utilaje ==
    <<"Caja Guia Entrada", "Caja Guia Salida", "Embudo Entrada", "Embudo Salida",
      "Codigo Polin Entrada", "Codigo Polin Salida", "Estabilizacion Entrada",
      "Estabilizacion Salida", "Rodamiento Entrada", "Rodamiento Salida",
      "Semiguia Entrada", "Semiguia Salida", "Raspador Entrada", "Raspador Salida">>

\* [comp for comp in componentes_utilaje if comp in df_ddp.columns]
componentes_disponibles ==
    SelectSeq(componentes_utilaje, LAMBDA comp : comp \in Rango(ColumnasDDP))

\* set(datos[comp].dropna().unique())
ValoresUnicos(datos, comp) == {datos[k][comp] : k \in 1..Len(datos)} \ {NaN, None}

\* a test of change that counts a value defined on one side only
CambiaTambienSinDefinir(datos_actual, datos_siguiente, comp) ==
    ValoresUnicos(datos_actual, comp) # ValoresUnicos(datos_siguiente, comp)

\* lines 1097-1103: both sides have values and the sets of values differ
CambiaComponente(datos_actual, datos_siguiente, comp) ==
    /\ ValoresUnicos(datos_actual, comp) # {}
    /\ ValoresUnicos(datos_siguiente, comp) # {}
    /\ ValoresUnicos(datos_actual, comp) # ValoresUnicos(datos_siguiente, comp)

\* groupby(["Grupo", "Nombre STD"]).agg({"PROGR": "sum"}), renamed "Toneladas"
df_programa_utilaje(prog) ==
    [g \in 1..(IF prog = <<>> THEN 0 ELSE GrupoPrograma(prog, Len(prog))) |->
        LET filas == SelectSeq(ConGrupo(prog), LAMBDA r : r["Grupo"] = g)
        IN  ("Nombre STD" :> filas[1]["Nombre STD"])
                @@ ("Toneladas" :> Suma([k \in 1..Len(filas) |-> filas[k]["PROGR"]]))]

\* a record of every change of block, with or without component changes
RegistroSiempre(i, actual, siguiente, componentes_cambian) ==
    << [Secuencia |-> i, ProductoOrigen |-> actual, ProductoDestino |-> siguiente,
        ComponentesQueCambian |-> Len(componentes_cambian),
        Componentes |-> componentes_cambian] >>

\* lines 1107-1114: if componentes_cambian: cambios_utilaje.append(...)
RegistroCambio(i, actual, siguiente, componentes_cambian) ==
    IF componentes_cambian = <<>> THEN <<>>
    ELSE << [Secuencia |-> i, ProductoOrigen |-> actual, ProductoDestino |-> siguiente,
             ComponentesQueCambian |-> Len(componentes_cambian),
             Componentes |-> componentes_cambian] >>

\* lines 1079-1114: the loop over the consecutive blocks of df_programa
CambiosUtilaje(ddp, prog) ==
    LET bloques == df_programa_utilaje(prog)
    IN  Aplanar([i \in 1..(Len(bloques) - 1) |->
            LET producto_actual == bloques[i]["Nombre STD"]
                producto_siguiente == bloques[i + 1]["Nombre STD"]
                datos_actual == Filtrar(ddp, "Producto", producto_actual)
                datos_siguiente == Filtrar(ddp, "Producto", producto_siguiente)
            IN  IF producto_actual = producto_siguiente THEN <<>>
                ELSE IF datos_actual = <<>> \/ datos_siguiente = <<>> THEN <<>>
                ELSE RegistroCambio(i, producto_actual, producto_siguiente,
                         SelectSeq(componentes_disponibles, LAMBDA comp :
                             CambiaComponente(datos_actual, datos_siguiente, comp)))])

SinMetricas ==
    [TotalProductos |-> 0, CambiosDeProducto |-> 0, CambiosConUtilaje |-> 0,
     TotalToneladas |-> 0]

\* lines 1116-1128
MetricasUtilaje(ddp, prog) ==
    LET bloques == df_programa_utilaje(prog)
        cambios == CambiosUtilaje(ddp, prog)
    IN  [TotalProductos |-> Len(bloques),
         CambiosDeProducto |-> Len(cambios),
         CambiosConUtilaje |->
             Cardinality({k \in 1..Len(cambios) : cambios[k].ComponentesQueCambian > 0}),
         TotalToneladas |-> Suma([g \in 1..Len(bloques) |-> bloques[g]["Toneladas"]])]

\* sub-tab 1 of the utilaje tab, offered once a program is in the session
UtilajePrograma ==
    /\ df_prog # <<>>
    /\ df_ddp # <<>>
    /\ componentes_disponibles # <<>>
    /\ df_prog' = TrasCopia(df_prog, ConGrupo(df_prog))
    /\ IF "PROGR" \notin DOMAIN df_prog[1]
       THEN /\ vista' = "utilaje sin PROGR"
            /\ UNCHANGED <<cambios_utilaje, metricas_utilaje>>
       ELSE /\ cambios_utilaje' = CambiosUtilaje(df_ddp, df_prog)
            /\ metricas_utilaje' = MetricasUtilaje(df_ddp, df_prog)
            /\ vista' = "utilaje programa"
    /\ UNCHANGED <<df_ddp, df_tiempo, seleccion, tiempo_ab, tiempo_ba,
                   tiempo_cambio, resumen_ddp, cache_comparar, resumen, df_resumen,
                   df_cambios, df_agrupado, aviso_tiempo,
                   df_desbaste, familias, df_desbaste_cmp,
                   seleccion_utilaje, df_comparacion>>
    /\ UNCHANGED varsSesion
    /\ UNCHANGED varsMaestranza
    /\ UNCHANGED varsCarga

\* the values of a component shown for a product
ValorMostrado(datos, comp) ==
    IF ValoresUnicos(datos, comp) = {} THEN {"No definido"} ELSE ValoresUnicos(datos, comp)

\* lines 1440-1464 of comparar_utilaje_productos
comparar_utilaje_productos(ddp, producto_a, producto_b, componentes, solo_diferencias) ==
    LET datos_a == Filtrar(ddp, "Producto", producto_a)
        datos_b == Filtrar(ddp, "Producto", producto_b)
    IN  IF datos_a = <<>> \/ datos_b = <<>> THEN <<>>
        ELSE Aplanar([j \in 1..Len(componentes) |->
                 LET diferentes == ValoresUnicos(datos_a, componentes[j])
                                       # ValoresUnicos(datos_b, componentes[j])
                 IN  IF solo_diferencias /\ ~diferentes THEN <<>>
                     ELSE << [Componente |-> componentes[j],
                              ProductoA |-> ValorMostrado(datos_a, componentes[j]),
                              ProductoB |-> ValorMostrado(datos_b, componentes[j]),
                              Diferente |-> IF diferentes THEN "Si" ELSE "No"] >>])

\* sub-tab 3 of the utilaje tab: the two select boxes offer the products of
\* the catalogue, at least two of them
CompararUtilaje(producto_a, producto_b, solo_diferencias) ==
    /\ df_ddp # <<>>
    /\ componentes_disponibles # <<>>
    /\ Cardinality(Columna(df_ddp, "Producto") \ {NaN}) >= 2
    /\ producto_a \in Columna(df_ddp, "Producto")
    /\ producto_b \in Columna(df_ddp, "Producto")
    /\ seleccion_utilaje' = <<producto_a, producto_b, solo_diferencias>>
    /\ IF producto_a # producto_b
       THEN /\ df_comparacion' = comparar_utilaje_productos(df_ddp, producto_a, producto_b,
                                     componentes_disponibles, solo_diferencias)
            /\ vista' = "utilaje comparacion"
       ELSE /\ df_comparacion' = <<>>
            /\ vista' = "utilaje mismo producto"
    /\ UNCHANGED <<df_ddp, df_tiempo, df_prog, seleccion, tiempo_ab, tiempo_ba,
                   tiempo_cambio, resumen_ddp, cache_comparar, resumen, df_resumen,
                   df_cambios, df_agrupado, aviso_tiempo,
                   df_desbaste, familias, df_desbaste_cmp,
                   cambios_utilaje, metricas_utilaje>>
    /\ UNCHANGED varsSesion
    /\ UNCHANGED varsMaestranza
    /\ UNCHANGED varsCarga

-----------------------------------------------------------------------------
(* Reference data: cargar_datos and the start of main *)

\* archivos = {"ddp": ..., "tiempo": ..., "desbaste": ...}
ClavesArchivos == <<"ddp", "tiempo", "desbaste">>

\* a file of data/: error when pd.read_excel or the pass over the dtypes
\* raises inside the try of lines 39-50, tabla what read_excel gives otherwise
Leido(tabla) == [error |-> FALSE, tabla |-> tabla]

Ilegible == [error |-> TRUE, tabla |-> <<>>]

\* None, and a value that is not None
Nada == <<>>

Algun(valor) == <<valor>>

\* lines 51-53: one message per file whose load raised
errores(arch) == SelectSeq(ClavesArchivos, LAMBDA key : arch[key].error)

\* datos.get(key): the table stored at line 49, None without
datos_get(arch, key) ==
    IF arch[key].error THEN Nada ELSE Algun(arch[key].tabla)

\* a loader that hands back whatever was loaded
cargar_datos_parcial(arch) ==
    <<datos_get(arch, "ddp"), datos_get(arch, "tiempo"), datos_get(arch, "desbaste")>>

\* lines 55-59
cargar_datos(arch) ==
    IF errores(arch) # <<>> THEN <<Nada, Nada, Nada>>
    ELSE <<datos_get(arch, "ddp"), datos_get(arch, "tiempo"), datos_get(arch, "desbaste")>>

\* datos_base before main has called cargar_datos
SinCargar == <<>>

\* if df_ddp is None: st.error(...); st.stop()
PaginaDetenida(datos) == datos[1] = Nada

\* the table of a value that is not None
Tabla(valor) == IF valor = Nada THEN <<>> ELSE valor[1]

\* lines 348-354 of main
CargarDatos ==
    /\ datos_base = SinCargar
    /\ datos_base' = cargar_datos(archivos)
    /\ IF PaginaDetenida(datos_base')
       THEN /\ vista' = "detenido"
            /\ UNCHANGED <<df_ddp, df_tiempo, df_desbaste>>
       ELSE /\ vista' = "datos cargados"
            /\ df_ddp' = Tabla(datos_base'[1])
            /\ df_tiempo' = Tabla(datos_base'[2])
            /\ df_desbaste' = Tabla(datos_base'[3])
    /\ UNCHANGED <<df_prog, seleccion, tiempo_ab, tiempo_ba,
                   tiempo_cambio, resumen_ddp, cache_comparar, resumen, df_resumen,
                   df_cambios, df_agrupado, aviso_tiempo, familias, df_desbaste_cmp,
                   archivos>>
    /\ UNCHANGED varsSesion
    /\ UNCHANGED varsMaestranza
    /\ UNCHANGED varsUtilaje

-----------------------------------------------------------------------------
(* Program upload and page of each session: cargar_programa_usuario, main *)

Sesiones == {"s1", "s2"}

\* "df_prog" not in st.session_state
Ausente == <<>>

\* the uploaded file: whether one was given, whether it can be read, whether
\* it has the sheet "TablaCombinada", and the rows of that sheet
Archivo(subido, legible, hoja, tabla) ==
    [subido |-> subido, legible |-> legible, hoja |-> hoja, tabla |-> tabla]

SinArchivo == Archivo(FALSE, FALSE, FALSE, <<>>)

\* a cleaning that keeps every row
dropna_nada(tabla) == tabla

\* df_prog.dropna(subset=["Nombre STD"]).reset_index(drop=True)
dropna(tabla) == SelectSeq(tabla, LAMBDA r : ~isna(r["Nombre STD"]))

\* an upload that keeps the rows of the sheet whatever they hold
CargaSinValidar(archivo) ==
    IF ~archivo.subido THEN [mensaje |-> "", df_prog |-> Ausente]
    ELSE IF ~archivo.legible \/ ~archivo.hoja
    THEN [mensaje |-> "Error al cargar archivo", df_prog |-> Ausente]
    ELSE [mensaje |-> "Archivo cargado", df_prog |-> archivo.tabla]

\* lines 73-95: the message shown and the program to store, Ausente for none;
\* a sheet without rows is read as a table without columns
CargaPrograma(archivo) ==
    IF ~archivo.subido THEN [mensaje |-> "", df_prog |-> Ausente]
    ELSE IF ~archivo.legible \/ ~archivo.hoja
    THEN [mensaje |-> "Error al cargar archivo", df_prog |-> Ausente]
    ELSE IF "Nombre STD" \notin ColumnasDe(archivo.tabla, {})
    THEN [mensaje |-> "El archivo debe contener la columna", df_prog |-> Ausente]
    ELSE IF dropna(archivo.tabla) = <<>>
    THEN [mensaje |-> "No se encontraron datos validos", df_prog |-> Ausente]
    ELSE [mensaje |-> "Archivo cargado", df_prog |-> dropna(archivo.tabla)]

\* a store shared by every session of the process
GuardarGlobal(estado, s, prog) == [t \in Sesiones |-> prog]

\* st.session_state.df_prog = df_prog_clean, in the session of the script run
Guardar(estado, s, prog) == [estado EXCEPT ![s] = prog]

\* an uploader shown on every run
CargadorSiempre(estado, s) == TRUE

\* line 63: if "df_prog" not in st.session_state, the uploader is shown
CargadorOfrecido(estado, s) == estado[s] = Ausente

\* lines 377-401: the tabs of the page and what the sequence tab shows
Pagina(prog, mensaje) ==
    [mensaje |-> mensaje,
     cargador |-> prog = Ausente,
     pestanas |-> {"comparador", "utilaje"}
                    \cup (IF prog # Ausente THEN {"secuencia", "maestranza"} ELSE {}),
     df_prog |-> prog,
     df_resumen |-> IF prog # Ausente
                    THEN agrupar_cambios_consecutivos(CambiosDePrograma(prog))
                    ELSE <<>>]

PaginaInicial ==
    [mensaje |-> "", cargador |-> FALSE, pestanas |-> {}, df_prog |-> Ausente,
     df_resumen |-> <<>>]

\* one script run of main for the session s, whose uploader holds archivo; a
\* stored program ends the run with st.rerun(), and the page is that of the
\* rerun, where the uploader is not shown
Render(s, archivo) ==
    LET carga == IF CargadorOfrecido(session_state, s) THEN CargaPrograma(archivo)
                 ELSE [mensaje |-> "", df_prog |-> Ausente]
        nuevo == IF carga.df_prog # Ausente
                 THEN Guardar(session_state, s, carga.df_prog)
                 ELSE session_state
        mensaje == IF carga.df_prog # Ausente THEN "" ELSE carga.mensaje
    IN  /\ session_state' = nuevo
        /\ pagina' = [pagina EXCEPT ![s] = Pagina(nuevo[s], mensaje)]
        /\ actor' = s
        /\ archivo_programa' = archivo
        /\ UNCHANGED <<df_ddp, df_tiempo, df_prog, seleccion, tiempo_ab, tiempo_ba,
                       tiempo_cambio, resumen_ddp, cache_comparar, resumen, df_resumen,
                       df_cambios, df_agrupado, aviso_tiempo, vista,
                       df_desbaste, familias, df_desbaste_cmp>>
        /\ UNCHANGED varsMaestranza
        /\ UNCHANGED varsUtilaje
    /\ UNCHANGED varsCarga

-----------------------------------------------------------------------------
(* Specifications *)

FilasCatalogo ==
    {Fila(p, s, cc, re) : p \in Productos, s \in Posiciones,
                          cc \in {NaN, "12", "14"}, re \in {NaN, "R1"}}

FilasTiempos ==
    {FilaTiempo(par[1], par[2], m) :
        par \in {q \in Productos \X Productos : q[1] # q[2]}, m \in {0, 45}}

\* catalogues that only decide which products have an entry
CatalogosMinimos ==
    { <<>>, <<Fila("X100", "M2", "12", NaN)>>, <<Fila("Y200", "M2", "14", NaN)>>,
      <<Fila("X100", "M2", "12", NaN), Fila("Y200", "M2", "14", NaN)>> }

\* the results of a page on which nothing has been shown yet
InitVistas ==
    /\ seleccion = <<>>
    /\ tiempo_ab = SinTiempo
    /\ tiempo_ba = SinTiempo
    /\ tiempo_cambio = SinTiempo
    /\ aviso_tiempo = ""
    /\ resumen_ddp = <<>>
    /\ cache_comparar = <<>>
    /\ resumen = <<>>
    /\ df_resumen = <<>>
    /\ df_agrupado = <<>>
    /\ familias = <<>>
    /\ df_desbaste_cmp = <<>>
    /\ vista = "inicio"
    /\ session_state = [s \in Sesiones |-> Ausente]
    /\ pagina = [s \in Sesiones |-> PaginaInicial]
    /\ actor = "ninguna"
    /\ archivo_programa = SinArchivo
    /\ df_maestranza = <<>>
    /\ buffer_completo = SinExportar
    /\ cambios_utilaje = <<>>
    /\ metricas_utilaje = SinMetricas
    /\ seleccion_utilaje = <<>>
    /\ df_comparacion = <<>>

\* the page after main has loaded the three tables
InitResultados ==
    /\ InitVistas
    /\ archivos = [ddp |-> Leido(df_ddp), tiempo |-> Leido(df_tiempo),
                   desbaste |-> Leido(df_desbaste)]
    /\ datos_base = cargar_datos(archivos)

\* the manual comparator over every small catalogue
InitComparador ==
    /\ df_ddp \in SeqHasta(FilasCatalogo, MaxFilas)
    /\ df_tiempo = <<>>
    /\ df_prog = <<>>
    /\ df_cambios = <<>>
    /\ df_desbaste = <<>>
    /\ InitResultados

NextComparador == \E a \in Productos, b \in Productos : ComparadorManual(a, b)

SpecComparador == InitComparador /\ [][NextComparador]_vars

\* the manual comparator over every small time table
InitTiempo ==
    /\ df_ddp \in CatalogosMinimos
    /\ df_tiempo \in SeqHasta(FilasTiempos, MaxTiempos)
    /\ df_prog = <<>>
    /\ df_cambios = <<>>
    /\ df_desbaste = <<>>
    /\ InitResultados

SpecTiempo == InitTiempo /\ [][NextComparador]_vars

\* catalogues and time tables for the sequence analysis
CatalogosSecuencia ==
    CatalogosMinimos \cup
    { <<Fila("X100", "M2", "12", NaN), Fila("Y200", "M10", "12", NaN)>>,
      <<Fila("X100", "M2", NaN, NaN), Fila("Y200", "M2", NaN, NaN)>> }

TablasSecuencia ==
    { <<>>, <<FilaTiempo("X100", "Y200", 45)>>, <<FilaTiempo("Y200", "X100", 45)>>,
      <<FilaTiempo("X100", "Y200", 0), FilaTiempo("Y200", "X100", 45)>> }

Programas(productos, n) ==
    {[k \in 1..Len(q) |-> FilaPrograma(q[k])] : q \in SeqHasta(productos, n) \ {<<>>}}

\* the sequence analysis over every small program
InitSecuencia ==
    /\ df_ddp \in CatalogosSecuencia
    /\ df_tiempo \in TablasSecuencia
    /\ df_prog \in Programas(Productos, MaxPrograma)
    /\ df_cambios = <<>>
    /\ df_desbaste = <<>>
    /\ InitResultados

NextSecuencia == SecuenciaPrograma

SpecSecuencia == InitSecuencia /\ [][NextSecuencia]_vars

\* transitions between any two products, one of them outside the catalogue
Pares == {q \in (Productos \cup {"Z300"}) \X (Productos \cup {"Z300"}) : q[1] # q[2]}

\* the grouping over every small table of transitions, each row built as the
\* sequence analysis builds it
InitAgrupar ==
    /\ df_ddp \in CatalogosMinimos
    /\ df_tiempo \in TablasSecuencia
    /\ df_prog = <<>>
    /\ \E pares \in SeqHasta(Pares, MaxCambios) :
          df_cambios = [k \in 1..Len(pares) |-> FilaCambio(k - 1, pares[k][1], pares[k][2])]
    /\ df_desbaste = <<>>
    /\ InitResultados

NextAgrupar == Agrupar

SpecAgrupar == InitAgrupar /\ [][NextAgrupar]_vars

-----------------------------------------------------------------------------
(* Vocabulary of the properties *)

Nulo(v) == v \in {NaN, None}

Min(S) == CHOOSE x \in S : \A y \in S : x <= y

\* rows of the catalogue of product p at position pos, by index
IndicesDe(p, pos) ==
    {i \in 1..Len(df_ddp) : df_ddp[i]["Producto"] = p /\ df_ddp[i]["STD"] = pos}

\* the value of product p at (pos, col): that of its first row there, None without a row
ValorDe(p, pos, col) ==
    IF IndicesDe(p, pos) = {} THEN None ELSE df_ddp[Min(IndicesDe(p, pos))][col]

PosicionesDe(p) == {pos \in Posiciones : IndicesDe(p, pos) # {}}

Atributos == {"Codigo Canal", "Rodamiento Entrada"}

FilasDe(res, pos, col) ==
    {i \in 1..Len(res) : res[i].Posicion = pos /\ res[i].Componente = col}

Comparado == vista = "comparacion"

\* C1: the comparison shown for (A, B) has exactly one row for every (position,
\* attribute) pair, position in the union of both products' positions, in which
\* at least one value is non-null, none for a pair null on both sides, and no
\* row for any other pair.
C1_UnaFilaPorPar ==
    Comparado =>
        LET a == seleccion[1]
            b == seleccion[2]
            union == PosicionesDe(a) \cup PosicionesDe(b)
        IN  /\ \A pos \in union, col \in Atributos :
                 Cardinality(FilasDe(resumen_ddp, pos, col)) =
                    IF Nulo(ValorDe(a, pos, col)) /\ Nulo(ValorDe(b, pos, col))
                    THEN 0 ELSE 1
            /\ \A i \in 1..Len(resumen_ddp) :
                 /\ resumen_ddp[i].Posicion \in union
                 /\ resumen_ddp[i].Componente \in Atributos

\* a comparison that holds a row for one pair and skips another pair of the union
C1_Testigo ==
    /\ Comparado
    /\ \E pos \in PosicionesDe(seleccion[1]) \cup PosicionesDe(seleccion[2]) :
         /\ FilasDe(resumen_ddp, pos, "Codigo Canal") # {}
         /\ FilasDe(resumen_ddp, pos, "Rodamiento Entrada") = {}

Intercambiada(res) ==
    [i \in 1..Len(res) |->
        [res[i] EXCEPT !.ValorA = res[i].ValorB, !.ValorB = res[i].ValorA]]

Cambiados(res) ==
    {<<res[i].Posicion, res[i].Componente>> : i \in {j \in 1..Len(res) : res[j].Cambia = "Si"}}

\* C2: whenever both compare(A, B) and compare(B, A) have been computed, they
\* flag the same (position, attribute) pairs as changed, and one is the other
\* with the columns Valor A and Valor B swapped.
C2_Simetria ==
    \A k \in DOMAIN cache_comparar :
        LET inv == <<k[2], k[1], k[3]>>
        IN  inv \in DOMAIN cache_comparar =>
              /\ Cambiados(cache_comparar[k]) = Cambiados(cache_comparar[inv])
              /\ cache_comparar[inv] = Intercambiada(cache_comparar[k])

\* both directions computed for different products, with a changed pair among them
C2_Testigo ==
    \E k \in DOMAIN cache_comparar :
        /\ k[1] # k[2]
        /\ <<k[2], k[1], k[3]>> \in DOMAIN cache_comparar
        /\ Cambiados(cache_comparar[k]) # {}
        /\ \E i \in 1..Len(cache_comparar[k]) : cache_comparar[k][i].ValorA = "-"

\* C3: a pair with a value on exactly one side is emitted with Cambia = "Si";
\* a pair with a value on both sides is flagged exactly when the values differ.
C3_PoliticaCambio ==
    Comparado =>
        \A pos \in Posiciones, col \in Atributos :
            LET va == ValorDe(seleccion[1], pos, col)
                vb == ValorDe(seleccion[2], pos, col)
            IN  /\ (Nulo(va) # Nulo(vb)) =>
                      /\ FilasDe(resumen_ddp, pos, col) # {}
                      /\ \A i \in FilasDe(resumen_ddp, pos, col) : resumen_ddp[i].Cambia = "Si"
                /\ (~Nulo(va) /\ ~Nulo(vb)) =>
                      /\ FilasDe(resumen_ddp, pos, col) # {}
                      /\ \A i \in FilasDe(resumen_ddp, pos, col) :
                            (resumen_ddp[i].Cambia = "Si") <=> (va # vb)

\* a position with equal values of one attribute on both sides, shown unchanged,
\* and a value of the other attribute on one side only, shown changed
C3_Testigo ==
    /\ Comparado
    /\ \E pos \in Posiciones :
         /\ ~Nulo(ValorDe(seleccion[1], pos, "Codigo Canal"))
         /\ ValorDe(seleccion[1], pos, "Codigo Canal") = ValorDe(seleccion[2], pos, "Codigo Canal")
         /\ \E i \in FilasDe(resumen_ddp, pos, "Codigo Canal") : resumen_ddp[i].Cambia = "No"
         /\ ~Nulo(ValorDe(seleccion[1], pos, "Rodamiento Entrada"))
         /\ Nulo(ValorDe(seleccion[2], pos, "Rodamiento Entrada"))
         /\ \E i \in FilasDe(resumen_ddp, pos, "Rodamiento Entrada") : resumen_ddp[i].Cambia = "Si"

\* the domain key of a position: "DU" first, then the families by numeric
\* suffix, unknown positions last
FamiliaPos(pos) ==
    CASE pos = "DU" -> 0
      [] pos \in {"M1", "M2", "M10"} -> 1
      [] pos \in {"A1"} -> 2
      [] OTHER -> 3

Sufijo(pos) ==
    CASE pos \in {"M1", "A1"} -> 1
      [] pos = "M2" -> 2
      [] pos = "M10" -> 10
      [] OTHER -> 0

\* C4: the rows of the comparison are ordered by the domain key of their
\* position: "DU" first, the positions of one family by numeric suffix ("M2"
\* before "M10"), unknown positions last.
C4_OrdenDominio ==
    Comparado =>
        \A i \in 1..Len(resumen_ddp), j \in 1..Len(resumen_ddp) :
            i < j =>
                LET p == resumen_ddp[i].Posicion
                    q == resumen_ddp[j].Posicion
                IN  /\ FamiliaPos(p) <= FamiliaPos(q)
                    /\ FamiliaPos(p) = FamiliaPos(q) => Sufijo(p) <= Sufijo(q)

Coincidencias(o, d) ==
    {i \in 1..Len(df_tiempo) :
        /\ df_tiempo[i]["Nombre STD Origen"] = o
        /\ df_tiempo[i]["Nombre STD Destino"] = d}

\* C5: the lookup for (origin, destination) answers the minutes of the first row
\* with exactly that pair, and None when there is none, also when a row for the
\* reversed pair exists.
C5_ConsultaExacta ==
    Comparado =>
        LET c == Coincidencias(seleccion[1], seleccion[2])
        IN  tiempo_ab = IF c = {} THEN SinTiempo
                        ELSE df_tiempo[Min(c)]["Minutos Cambio"]

\* a lookup that misses although the reversed pair has two rows
C5_Testigo ==
    /\ Comparado
    /\ Coincidencias(seleccion[1], seleccion[2]) = {}
    /\ Cardinality(Coincidencias(seleccion[2], seleccion[1])) > 1
    /\ tiempo_ab = SinTiempo
    /\ tiempo_ba # SinTiempo

\* C6: the time of the manual comparison of (A, B) is the (A, B) entry when
\* there is one and else the (B, A) entry.
C6_TiempoConRespaldo ==
    Comparado =>
        LET ab == Coincidencias(seleccion[1], seleccion[2])
            ba == Coincidencias(seleccion[2], seleccion[1])
        IN  tiempo_cambio =
                IF ab # {} THEN df_tiempo[Min(ab)]["Minutos Cambio"]
                ELSE IF ba # {} THEN df_tiempo[Min(ba)]["Minutos Cambio"]
                ELSE SinTiempo

\* only (B, A) is in the table and the comparison of (A, B) has its minutes
C6_Testigo ==
    /\ Comparado
    /\ Coincidencias(seleccion[1], seleccion[2]) = {}
    /\ Coincidencias(seleccion[2], seleccion[1]) # {}
    /\ tiempo_cambio = 45

SecuenciaAnalizada == vista \in {"secuencia", "sin cambios"}

\* the time-table entry of (o, d), SinTiempo without one
Entrada(o, d) ==
    IF Coincidencias(o, d) = {} THEN SinTiempo
    ELSE df_tiempo[Min(Coincidencias(o, d))]["Minutos Cambio"]

\* C7: every transition of the sequence analysis carries the time-table entry
\* of (origin, destination) when there is one and else the entry of
\* (destination, origin); its minutes are absent only without either.
C7_TiempoConRespaldo ==
    SecuenciaAnalizada =>
        \A i \in 1..Len(resumen) :
            LET o == resumen[i]["Producto Origen"]
                d == resumen[i]["Producto Destino"]
            IN  resumen[i]["Tiempo estimado"] =
                    IF Entrada(o, d) # SinTiempo THEN Entrada(o, d) ELSE Entrada(d, o)

\* the rows of the program after which the product changes
Fronteras == {k \in 1..(Len(df_prog) - 1) : df_prog[k] # df_prog[k + 1]}

\* the n-th element of a set of numbers, in increasing order
Enesimo(S, n) == CHOOSE x \in S : Cardinality({y \in S : y < x}) = n - 1

ParesDe(tabla) ==
    [i \in 1..Len(tabla) |-> <<tabla[i]["Producto Origen"], tabla[i]["Producto Destino"]>>]

ProgramaEjemplo ==
    [k \in 1..6 |-> FilaPrograma(<<"X100", "X100", "Y200", "Y200", "Y200", "X100">>[k])]

\* C8: the sequence analysis reports, in program order, exactly one block for
\* each boundary between two consecutive maximal runs of one product and none
\* for adjacent rows of the same product; the program [X, X, Y, Y, Y, X] gives
\* the two blocks (X -> Y) and (Y -> X).
C8_UnBloquePorFrontera ==
    SecuenciaAnalizada =>
        /\ Len(df_resumen) = Cardinality(Fronteras)
        /\ \A g \in 1..Len(df_resumen) :
              LET k == Enesimo(Fronteras, g)
              IN  /\ df_resumen[g]["Secuencia"] = k
                  /\ df_resumen[g]["Producto Origen"] = df_prog[k]["Nombre STD"]
                  /\ df_resumen[g]["Producto Destino"] = df_prog[k + 1]["Nombre STD"]
        /\ df_prog = ProgramaEjemplo =>
              ParesDe(df_resumen) = << <<"X100", "Y200">>, <<"Y200", "X100">> >>

\* the program [X, X, Y, Y, Y, X] analysed into two blocks
C8_Testigo ==
    /\ vista = "secuencia"
    /\ df_prog = ProgramaEjemplo
    /\ Len(df_resumen) = 2

\* the rows flagged by the positional comparator for "Codigo Canal"
CambiosDelComparador(o, d) ==
    LET res == comparar_productos(Filtrar(df_ddp, "Producto", o),
                                  Filtrar(df_ddp, "Producto", d), <<"Codigo Canal">>)
    IN  Cardinality({i \in 1..Len(res) : res[i].Cambia = "Si"})

\* C9: the change count of every transition of the sequence analysis is the
\* number of rows the positional comparator flags as changed for the products
\* of the transition.
C9_ConteoDelComparador ==
    SecuenciaAnalizada =>
        \A i \in 1..Len(df_resumen) :
            df_resumen[i]["Cambios Codigo Canal"] =
                CambiosDelComparador(df_resumen[i]["Producto Origen"],
                                     df_resumen[i]["Producto Destino"])

Clave(fila) == <<fila["Producto Origen"], fila["Producto Destino"], fila["Familia"]>>

\* the rows of the transition table that start a maximal run of one key
Inicios ==
    {i \in 1..Len(df_cambios) : i = 1 \/ Clave(df_cambios[i]) # Clave(df_cambios[i - 1])}

\* C10: the grouping turns every maximal run of consecutive transitions with
\* the same (origin, destination, family pair) into one block that keeps the
\* sequence index, time and change count of the first transition of the run;
\* the blocks are in the order of the input and transitions that are not
\* adjacent are not merged.
C10_BloquePorRacha ==
    vista = "agrupado" =>
        /\ Len(df_agrupado) = Cardinality(Inicios)
        /\ \A g \in 1..Len(df_agrupado) :
              LET primera == df_cambios[Enesimo(Inicios, g)]
              IN  \A col \in Rango(columnas_posibles) : df_agrupado[g][col] = primera[col]

\* a run of two transitions merged into one block, followed by another block,
\* and a table whose first and last transitions are equal and stay apart
C10_Testigo ==
    /\ vista = "agrupado"
    /\ Len(df_cambios) = 3
    /\ Clave(df_cambios[1]) = Clave(df_cambios[2])
    /\ Clave(df_cambios[2]) # Clave(df_cambios[3])
    /\ Len(df_agrupado) = 2
    /\ df_agrupado[2]["Secuencia"] = 3

Catalogados == Columna(df_ddp, "Producto")

\* C11: a product of the program without a catalogue row does not abort the
\* sequence analysis: every change of product of the program is reported, a
\* product outside the catalogue has the family label "N/A" and its
\* transitions the change count 0.
C11_ProductoSinCatalogo ==
    SecuenciaAnalizada =>
        /\ \A k \in Fronteras : \E i \in 1..Len(df_resumen) :
              /\ df_resumen[i]["Secuencia"] = k
              /\ df_resumen[i]["Producto Origen"] = df_prog[k]["Nombre STD"]
              /\ df_resumen[i]["Producto Destino"] = df_prog[k + 1]["Nombre STD"]
        /\ \A i \in 1..Len(df_resumen) :
              LET o == df_resumen[i]["Producto Origen"]
                  d == df_resumen[i]["Producto Destino"]
                  f == df_resumen[i]["Familia"]
              IN  /\ (f[1] = "N/A") <=> (o \notin Catalogados)
                  /\ (f[3] = "N/A") <=> (d \notin Catalogados)
                  /\ (o \notin Catalogados \/ d \notin Catalogados) =>
                        df_resumen[i]["Cambios Codigo Canal"] = 0

\* a program whose first change involves a product outside the catalogue and
\* that is reported with two later changes
C11_Testigo ==
    /\ vista = "secuencia"
    /\ "X100" \in Catalogados
    /\ "Y200" \notin Catalogados
    /\ Len(df_resumen) = 3
    /\ df_resumen[1]["Familia"] = <<"F1", "->", "N/A">>
    /\ df_resumen[3]["Familia"] = <<"F1", "->", "N/A">>

-----------------------------------------------------------------------------
(* comparar_productos called on the row sets of any two product ids *)

\* df_a = df_ddp[df_ddp["Producto"] == a], df_b likewise, then the call
LlamarCompararProductos(producto_a, producto_b) ==
    /\ seleccion' = <<producto_a, producto_b>>
    /\ resumen_ddp' = comparar_productos(Filtrar(df_ddp, "Producto", producto_a),
                                         Filtrar(df_ddp, "Producto", producto_b),
                                         columnas_ddp)
    /\ vista' = "comparar_productos"
    /\ UNCHANGED <<df_ddp, df_tiempo, df_prog, tiempo_ab, tiempo_ba, tiempo_cambio,
                   cache_comparar, resumen, df_resumen, df_cambios, df_agrupado,
                   aviso_tiempo,
                   df_desbaste, familias, df_desbaste_cmp>>
    /\ UNCHANGED varsSesion
    /\ UNCHANGED varsMaestranza
    /\ UNCHANGED varsUtilaje
    /\ UNCHANGED varsCarga

NextLlamada == \E a \in Productos, b \in Productos : LlamarCompararProductos(a, b)

SpecLlamada == InitComparador /\ [][NextLlamada]_vars

LadoA == Filtrar(df_ddp, "Producto", seleccion[1])
LadoB == Filtrar(df_ddp, "Producto", seleccion[2])

\* C12: when one of the two row sets given to comparar_productos is empty the
\* result is the empty table, whatever the other row set holds.
C12_LadoVacio ==
    (vista = "comparar_productos" /\ (LadoA = <<>> \/ LadoB = <<>>)) =>
        resumen_ddp = <<>>

\* one side is empty and the other has two rows with values
C12_Testigo ==
    /\ vista = "comparar_productos"
    /\ LadoA = <<>>
    /\ Len(LadoB) = 2
    /\ \A i \in 1..2 : ~isna(LadoB[i]["Codigo Canal"])
    /\ resumen_ddp = <<>>

-----------------------------------------------------------------------------
(* comparar_desbaste over every small groove table *)

MaxDesbaste == 2     \* rows of the groove table

Familias == {"F1", "F2"}
SubPosiciones == {"D2", "D10"}
ValoresDesbaste == {"10", "10 ", "R5", NaN}

FilasDesbaste ==
    {FilaDesbaste(f, s, "Ancho", v) :
        f \in Familias, s \in SubPosiciones, v \in ValoresDesbaste}

InitDesbaste ==
    /\ df_ddp = <<>>
    /\ df_tiempo = <<>>
    /\ df_prog = <<>>
    /\ df_cambios = <<>>
    /\ df_desbaste \in SeqHasta(FilasDesbaste, MaxDesbaste)
    /\ InitResultados

NextDesbaste ==
    \E fa \in Familias \cup {Todos}, fb \in Familias \cup {Todos} : CompararDesbaste(fa, fb)

SpecDesbaste == InitDesbaste /\ [][NextDesbaste]_vars

DesbasteComparado == vista = "desbaste" /\ familias[1] # familias[2]

ClavesDesbaste == pares_de(df_desbaste)

\* the value of a key on a side: that of its first row, None without a row
ValorDesbaste(familia, clave) ==
    LET filas == SelectSeq(LadoDesbaste(df_desbaste, familia), LAMBDA r :
                     r["SubSTD"] = clave[1] /\ r["Componente limpio"] = clave[2])
    IN  IF filas = <<>> THEN None ELSE filas[1]["Valor"]

FilasDesbasteDe(clave) ==
    {i \in 1..Len(df_desbaste_cmp) :
        /\ df_desbaste_cmp[i].Posicion = clave[1]
        /\ df_desbaste_cmp[i].Componente = clave[2]}

\* C13: comparar_desbaste follows the skip/changed policy of the positional
\* comparator per (sub-position, component): no row when the key is null or
\* absent on both sides, one row marked changed when exactly one side has a
\* value, one row marked changed exactly when the two values differ otherwise.
C13_PoliticaDesbaste ==
    DesbasteComparado =>
        \A clave \in ClavesDesbaste :
            LET val_a == ValorDesbaste(familias[1], clave)
                val_b == ValorDesbaste(familias[2], clave)
                filas == FilasDesbasteDe(clave)
            IN  /\ (isna(val_a) /\ isna(val_b)) => filas = {}
                /\ (isna(val_a) # isna(val_b)) =>
                      /\ Cardinality(filas) = 1
                      /\ \A i \in filas : df_desbaste_cmp[i].Cambia = "Si"
                /\ (~isna(val_a) /\ ~isna(val_b)) =>
                      /\ Cardinality(filas) = 1
                      /\ \A i \in filas :
                            (df_desbaste_cmp[i].Cambia = "Si")
                                <=> (limpiar_valor(val_a) # limpiar_valor(val_b))

\* the number n of the sub-position "D<n>"
NumeroSubPosicion(s) == IF s = "D2" THEN 2 ELSE 10

\* C14: the rows of comparar_desbaste come in increasing numeric order of the
\* number of their sub-position "D<n>" ("D2" before "D10").
C14_OrdenSubPosicion ==
    DesbasteComparado =>
        \A i \in 1..Len(df_desbaste_cmp), j \in 1..Len(df_desbaste_cmp) :
            i < j => NumeroSubPosicion(df_desbaste_cmp[i].Posicion)
                        <= NumeroSubPosicion(df_desbaste_cmp[j].Posicion)

\* the rows a side is compared on: the whole table for the sentinel
FilasDelLado(familia) ==
    IF familia = Todos THEN df_desbaste
    ELSE SelectSeq(df_desbaste, LAMBDA r : r["Familia"] = familia)

\* the value shown for a key: that of the first row of the side with the key
Mostrado(familia, substd, comp) ==
    LET filas == SelectSeq(FilasDelLado(familia), LAMBDA r :
                     r["SubSTD"] = substd /\ r["Componente limpio"] = comp)
    IN  IF filas = <<>> THEN "-" ELSE str(filas[1]["Valor"])

\* C15: each side of comparar_desbaste is the rows of its family, and the whole
\* groove table for the sentinel "(Todos)"; the value of a key is taken from
\* its first occurrence on the side, and a key of neither side has no row.
C15_FiltroPorFamilia ==
    DesbasteComparado =>
        \A i \in 1..Len(df_desbaste_cmp) :
            LET fila == df_desbaste_cmp[i]
            IN  /\ fila.ValorA = Mostrado(familias[1], fila.Posicion, fila.Componente)
                /\ fila.ValorB = Mostrado(familias[2], fila.Posicion, fila.Componente)
                /\ fila.ValorA # "-" \/ fila.ValorB # "-"

\* the sentinel side takes the key from the first row of the table, which is
\* of another family than the filtered side
C15_Testigo ==
    /\ vista = "desbaste"
    /\ familias = <<Todos, "F2">>
    /\ df_desbaste = <<FilaDesbaste("F1", "D2", "Ancho", "10"),
                       FilaDesbaste("F2", "D2", "Ancho", "R5")>>
    /\ df_desbaste_cmp = <<[Posicion |-> "D2", Componente |-> "Ancho",
                            ValorA |-> "10", ValorB |-> "R5", Cambia |-> "Si"]>>

\* C16: comparar_desbaste with two equal family arguments, the sentinel
\* included, returns the empty table whatever the groove table holds.
C16_MismaFamilia ==
    (vista = "desbaste" /\ familias[1] = familias[2]) => df_desbaste_cmp = <<>>

\* equal families over a table with two values of the family
C16_Testigo ==
    /\ vista = "desbaste"
    /\ familias \in {<<"F1", "F1">>, <<Todos, Todos>>}
    /\ Len(df_desbaste) = 2
    /\ \A i \in 1..2 : df_desbaste[i]["Familia"] = "F1" /\ ~isna(df_desbaste[i]["Valor"])
    /\ df_desbaste_cmp = <<>>

-----------------------------------------------------------------------------
(* Tables that lack a required column *)

\* the table with the given columns only
Restringir(tabla, columnas) ==
    [i \in 1..Len(tabla) |-> [col \in columnas |-> tabla[i][col]]]

\* every table of a set, whole and with one column dropped
SinUnaColumna(tablas, columnas) ==
    {Restringir(t, columnas \ {falta}) : t \in tablas, falta \in columnas \cup {"ninguna"}}

TablasDesbaste ==
    { <<FilaDesbaste("F1", "D2", "Ancho", "10")>>,
      <<FilaDesbaste("F1", "D2", "Ancho", "10"), FilaDesbaste("F2", "D2", "Ancho", "R5")>>,
      <<FilaDesbaste("F1", "D2", "Ancho", NaN), FilaDesbaste("F1", "D10", "Ancho", "10")>> }

\* obtener_tiempo_cambio called on the time table
ConsultarTiempo(producto_origen, producto_destino) ==
    /\ seleccion' = <<producto_origen, producto_destino>>
    /\ tiempo_cambio' = obtener_tiempo_cambio(df_tiempo, producto_origen, producto_destino)
    /\ vista' = "tiempo"
    /\ UNCHANGED <<df_ddp, df_tiempo, df_prog, tiempo_ab, tiempo_ba, resumen_ddp,
                   cache_comparar, resumen, df_resumen, df_cambios, df_agrupado,
                   aviso_tiempo, df_desbaste, familias, df_desbaste_cmp>>
    /\ UNCHANGED varsSesion
    /\ UNCHANGED varsMaestranza
    /\ UNCHANGED varsUtilaje
    /\ UNCHANGED varsCarga

InitEstructura ==
    /\ df_ddp = <<>>
    /\ df_prog = <<>>
    /\ \/ /\ df_tiempo \in SinUnaColumna(TablasSecuencia, columnas_requeridas_tiempo)
          /\ df_desbaste = <<>>
          /\ df_cambios = <<>>
       \/ /\ df_tiempo = <<>>
          /\ df_desbaste \in SinUnaColumna(TablasDesbaste, ColumnasDesbaste)
          /\ df_cambios = <<>>
       \/ /\ df_tiempo = <<>>
          /\ df_desbaste = <<>>
          /\ \E q \in SeqHasta({<<"X100", "Y200">>, <<"Y200", "X100">>}, MaxCambios) :
                df_cambios \in SinUnaColumna(
                    {[k \in 1..Len(q) |-> FilaCambio(k - 1, q[k][1], q[k][2])]},
                    Rango(columnas_posibles))
    /\ InitResultados

NextEstructura ==
    \/ \E o \in Productos, d \in Productos : ConsultarTiempo(o, d)
    \/ \E fa \in Familias \cup {Todos}, fb \in Familias \cup {Todos} : CompararDesbaste(fa, fb)
    \/ Agrupar

SpecEstructura == InitEstructura /\ [][NextEstructura]_vars

FaltaColumnaTiempo ==
    ~(columnas_requeridas_tiempo \subseteq ColumnasDe(df_tiempo, columnas_requeridas_tiempo))

FaltaColumnaDesbaste ==
    ~(columnas_requeridas_desbaste \subseteq ColumnasDe(df_desbaste, ColumnasDesbaste))

FaltaColumnaCambios ==
    ~(Rango(columnas_requeridas) \subseteq ColumnasDe(df_cambios, Rango(columnas_posibles)))

\* C17: a required column absent from the time table, the groove table or the
\* transition table is answered with a failure the caller can tell from a
\* legitimate result: not with the value of a lookup miss, of an empty
\* comparison or with the ungrouped table.
C17_ErrorDistinguible ==
    /\ (vista = "tiempo" /\ FaltaColumnaTiempo) => tiempo_cambio # SinTiempo
    /\ (DesbasteComparado /\ FaltaColumnaDesbaste) => df_desbaste_cmp # <<>>
    /\ (vista = "agrupado" /\ FaltaColumnaCambios) => df_agrupado # df_cambios

-----------------------------------------------------------------------------
(* Two sessions that upload programs and render pages *)

MaxCarga == 2        \* rows of the sheet of an uploaded file

TablasCarga ==
    {[k \in 1..Len(q) |-> FilaPrograma(q[k])] : q \in SeqHasta(Productos \cup {NaN}, MaxCarga)}
        \cup {<<("PROGR" :> "5")>>}

Archivos ==
    {SinArchivo, Archivo(TRUE, FALSE, FALSE, <<>>), Archivo(TRUE, TRUE, FALSE, <<>>)}
        \cup {Archivo(TRUE, TRUE, TRUE, t) : t \in TablasCarga}

InitSesiones ==
    /\ df_ddp = <<Fila("X100", "M2", "12", NaN), Fila("Y200", "M2", "14", NaN)>>
    /\ df_tiempo = <<FilaTiempo("X100", "Y200", 45)>>
    /\ df_prog = <<>>
    /\ df_cambios = <<>>
    /\ df_desbaste = <<>>
    /\ InitResultados

NextSesiones == \E s \in Sesiones, archivo \in Archivos : Render(s, archivo)

SpecSesiones == InitSesiones /\ [][NextSesiones]_vars

\* the rows of the sheet that have a product id
FilasValidas(archivo) ==
    IF archivo.subido /\ archivo.legible /\ archivo.hoja
    THEN SelectSeq(archivo.tabla, LAMBDA r :
             "Nombre STD" \in DOMAIN r /\ r["Nombre STD"] \notin {NaN, None})
    ELSE <<>>

\* C18: the uploaded program belongs to the session that uploaded it: a
\* script run of one session leaves the stored program and the page of the
\* other session as they were, and the program a session shows and analyses
\* is the one it stored itself, from the file of its own uploader.
C18_ProgramaPorSesion ==
    [][\A s \in Sesiones :
          /\ actor' # s =>
                /\ session_state'[s] = session_state[s]
                /\ pagina'[s] = pagina[s]
          /\ actor' = s =>
                /\ session_state[s] # Ausente => session_state'[s] = session_state[s]
                /\ session_state[s] = Ausente =>
                      session_state'[s] = FilasValidas(archivo_programa')
                /\ pagina'[s].df_prog = session_state'[s]
                /\ ("secuencia" \in pagina'[s].pestanas) <=> (session_state'[s] # Ausente)]_vars

\* both sessions have stored a program of their own, the second one last
C18_Testigo ==
    /\ actor = "s2"
    /\ session_state["s1"] = <<FilaPrograma("X100"), FilaPrograma("Y200")>>
    /\ session_state["s2"] = <<FilaPrograma("Y200")>>
    /\ pagina["s1"].df_prog = session_state["s1"]
    /\ Len(pagina["s1"].df_resumen) = 1
    /\ pagina["s2"].df_prog = session_state["s2"]

MensajesError ==
    {"Error al cargar archivo", "El archivo debe contener la columna",
     "No se encontraron datos validos"}

\* C19: an upload that fails (unreadable file, sheet missing, product-id
\* column missing or no row with a product id) is reported with an error
\* message, leaves the session without stored program and the reference
\* tables as they were, and the manual comparator and the utilaje tab are
\* rendered in the same run.
C19_CargaFallida ==
    [][\A s \in Sesiones :
          (/\ actor' = s
           /\ session_state[s] = Ausente
           /\ archivo_programa'.subido
           /\ FilasValidas(archivo_programa') = <<>>) =>
              /\ session_state'[s] = Ausente
              /\ pagina'[s].mensaje \in MensajesError
              /\ {"comparador", "utilaje"} \subseteq pagina'[s].pestanas
              /\ df_ddp' = df_ddp
              /\ df_tiempo' = df_tiempo
              /\ df_desbaste' = df_desbaste]_vars

\* the sheet of the uploaded file has one row, without product id
C19_Testigo ==
    /\ actor = "s1"
    /\ archivo_programa = Archivo(TRUE, TRUE, TRUE, <<FilaPrograma(NaN)>>)
    /\ session_state["s1"] = Ausente
    /\ pagina["s1"].mensaje = "No se encontraron datos validos"
    /\ pagina["s1"].pestanas = {"comparador", "utilaje"}

-----------------------------------------------------------------------------
(* Every operation of the page on one set of tables *)

FilaProgramaToneladas(p, t) == ("Nombre STD" :> p) @@ ("PROGR" :> t)

ProgramasPagina ==
    { <<FilaPrograma("X100"), FilaPrograma("Y200")>>,
      <<FilaProgramaToneladas("X100", 5), FilaProgramaToneladas("X100", 7),
        FilaProgramaToneladas("Y200", 5)>> }

InitPagina ==
    /\ df_ddp = <<Fila("X100", "M2", "12", NaN), Fila("Y200", "M2", "14", NaN)>>
    /\ df_tiempo = <<FilaTiempo("X100", "Y200", 45)>>
    /\ df_prog \in ProgramasPagina
    /\ df_desbaste \in TablasDesbaste
    /\ df_cambios = <<FilaCambio(0, "X100", "Y200"), FilaCambio(1, "X100", "Y200")>>
    /\ InitResultados

NextPagina ==
    \/ \E a \in Productos, b \in Productos : ComparadorManual(a, b)
    \/ \E o \in Productos, d \in Productos : ConsultarTiempo(o, d)
    \/ \E fa \in {"F1", Todos}, fb \in {"F2", Todos} : CompararDesbaste(fa, fb)
    \/ SecuenciaPrograma
    \/ MaestranzaPrograma
    \/ Agrupar

SpecPagina == InitPagina /\ [][NextPagina]_vars

\* C20: no operation of the page modifies the catalogue, the time table, the
\* groove table, the stored program or the table handed to the grouping: each
\* keeps its rows and its columns in every step (the helper columns "Grupo"
\* and "Valor_limpio" go to copies).
C20_TablasIntactas ==
    [][/\ df_ddp' = df_ddp
       /\ df_tiempo' = df_tiempo
       /\ df_desbaste' = df_desbaste
       /\ df_prog' = df_prog
       /\ df_cambios' = df_cambios]_vars

\* the maestranza summary and its export were built and the groove table was
\* compared as a whole; the program has no "Grupo", the groove table no
\* "Valor_limpio"
C20_Testigo ==
    /\ vista = "maestranza"
    /\ Len(df_maestranza) = 2
    /\ df_maestranza[1]["Toneladas Programadas"] = 12
    /\ buffer_completo.Programa_Completo = df_prog
    /\ DOMAIN df_prog[1] = {"Nombre STD", "PROGR"}
    /\ familias = <<Todos, "F2">>
    /\ df_desbaste_cmp # <<>>
    /\ DOMAIN df_desbaste[1] = ColumnasDesbaste
    /\ df_resumen # <<>>

-----------------------------------------------------------------------------
(* Later properties of the sequence analysis and of the manual comparator *)

\* C23: every transition of the raw list of the sequence walk has an origin
\* different from its destination and starts where the transition before it
\* ended, so no two consecutive transitions have the same pair and the
\* grouping returns as many blocks as there are raw transitions.
C23_CadenaDeCambios ==
    SecuenciaAnalizada =>
        /\ \A i \in 1..Len(resumen) :
              resumen[i]["Producto Origen"] # resumen[i]["Producto Destino"]
        /\ \A i \in 2..Len(resumen) :
              /\ resumen[i]["Producto Origen"] = resumen[i - 1]["Producto Destino"]
              /\ ParesDe(resumen)[i] # ParesDe(resumen)[i - 1]
        /\ Len(agrupar_cambios_consecutivos(resumen)) = Len(resumen)
        /\ vista = "secuencia" => Len(df_resumen) = Len(resumen)

\* a program with runs of equal products and four changes
C23_Testigo ==
    /\ vista = "secuencia"
    /\ Len(df_prog) = 6
    /\ df_prog[1] = df_prog[2]
    /\ Len(resumen) = 4
    /\ Len(df_resumen) = 4

\* C24: the manual comparison reports the changeover time as not registered
\* exactly when the time table has a row neither for (A, B) nor for (B, A);
\* a recorded time of 0 minutes is reported as registered.
C24_NoRegistrado ==
    Comparado =>
        ((aviso_tiempo = "no registrado")
            <=> (/\ Coincidencias(seleccion[1], seleccion[2]) = {}
                 /\ Coincidencias(seleccion[2], seleccion[1]) = {}))

-----------------------------------------------------------------------------
(* Later properties of the stored program *)

ConProducto(tabla) ==
    {i \in 1..Len(tabla) :
        "Nombre STD" \in DOMAIN tabla[i] /\ tabla[i]["Nombre STD"] \notin {NaN, None}}

\* C25: a stored program has the column "Nombre STD", at least one row and no
\* row with a null product id, and when it is stored its rows are the rows of
\* the uploaded sheet that have a product id, in their order in the sheet.
C25_ProgramaValido ==
    [][\A s \in Sesiones :
          session_state'[s] # Ausente =>
              /\ Len(session_state'[s]) >= 1
              /\ \A i \in 1..Len(session_state'[s]) :
                    /\ "Nombre STD" \in DOMAIN session_state'[s][i]
                    /\ session_state'[s][i]["Nombre STD"] \notin {NaN, None}
              /\ session_state[s] = Ausente =>
                    LET tabla == archivo_programa'.tabla
                    IN  /\ Len(session_state'[s]) = Cardinality(ConProducto(tabla))
                        /\ \A n \in 1..Len(session_state'[s]) :
                              session_state'[s][n] = tabla[Enesimo(ConProducto(tabla), n)]]_vars

\* the sheet had a row without product id before the row that was stored
C25_Testigo ==
    /\ actor = "s1"
    /\ archivo_programa = Archivo(TRUE, TRUE, TRUE, <<FilaPrograma(NaN), FilaPrograma("Y200")>>)
    /\ session_state["s1"] = <<FilaPrograma("Y200")>>

\* C26: once a session has a stored program no later script run of the
\* session replaces or removes it, whatever file is given, and the uploader
\* is offered exactly while the session has no stored program.
C26_ProgramaEstable ==
    [][\A s \in Sesiones :
          /\ session_state[s] # Ausente => session_state'[s] = session_state[s]
          /\ actor' = s => (pagina'[s].cargador <=> session_state'[s] = Ausente)]_vars

\* a session that stored [X100] renders again with another valid file
C26_Testigo ==
    /\ actor = "s1"
    /\ session_state["s1"] = <<FilaPrograma("X100")>>
    /\ archivo_programa = Archivo(TRUE, TRUE, TRUE, <<FilaPrograma("Y200")>>)
    /\ ~pagina["s1"].cargador

-----------------------------------------------------------------------------
(* The program-based analyses over every small program with tonnage *)

MaxBloques == 3    \* rows of a program

Toneladas == {5, 7}

CatalogosUtilaje ==
    { <<Fila("X100", "M2", "12", "R1"), Fila("Y200", "M2", "12", "R2")>>,
      <<Fila("X100", "M2", "12", "R1"), Fila("Y200", "M2", "14", "R1")>>,
      <<Fila("X100", "M2", "12", "R1"), Fila("Y200", "M2", "12", NaN)>>,
      <<Fila("X100", "M2", "12", NaN), Fila("Y200", "M2", "12", NaN)>>,
      <<Fila("X100", "M2", "12", "R1"), Fila("X100", "M10", "12", "R2"),
        Fila("Y200", "M2", "12", "R2"), Fila("Y200", "M10", "12", "R1")>>,
      <<Fila("X100", "M2", "12", "R1"), Fila("X100", "M10", "12", "R2"),
        Fila("Y200", "M2", "12", "R2")>>,
      <<Fila("X100", "M2", "12", "R1")>> }

CatalogosBloques ==
    { <<Fila("X100", "M2", "12", "R1"), Fila("Y200", "M2", "14", "R2")>>,
      <<Fila("X100", "M2", "12", "R1")>> }

ProgramasConToneladas ==
    {[k \in 1..Len(q) |-> FilaProgramaToneladas(q[k][1], q[k][2])] :
        q \in SeqHasta(Productos \X Toneladas, MaxBloques) \ {<<>>}}

\* a program with the product column and no tonnage column
ProgramaSinToneladas == <<FilaPrograma("X100"), FilaPrograma("Y200")>>

InitBloques ==
    /\ df_ddp \in CatalogosBloques
    /\ df_tiempo = <<>>
    /\ df_prog \in ProgramasConToneladas \cup {ProgramaSinToneladas}
    /\ df_cambios = <<>>
    /\ df_desbaste = <<>>
    /\ InitResultados

NextBloques ==
    \/ SecuenciaPrograma
    \/ MaestranzaPrograma
    \/ UtilajePrograma

SpecBloques == InitBloques /\ [][NextBloques]_vars

ProgramasUtilaje ==
    {[k \in 1..Len(q) |-> FilaProgramaToneladas(q[k], 5)] :
        q \in SeqHasta(Productos, MaxBloques) \ {<<>>}}

InitUtilaje ==
    /\ df_ddp \in CatalogosUtilaje
    /\ df_tiempo = <<>>
    /\ df_prog \in ProgramasUtilaje
    /\ df_cambios = <<>>
    /\ df_desbaste = <<>>
    /\ InitResultados

NextUtilaje ==
    \/ UtilajePrograma
    \/ \E a \in Productos, b \in Productos, solo \in BOOLEAN : CompararUtilaje(a, b, solo)

SpecUtilaje == InitUtilaje /\ [][NextUtilaje]_vars

-----------------------------------------------------------------------------
(* Blocks of the program *)

\* f assigns the rows of prog to n blocks in program order: the first row
\* to block 1, each next row to the same block when its product is the one
\* of the row before and to the next block otherwise, the last row to block n
EsParticionEnRachas(prog, n, f) ==
    /\ f[1] = 1
    /\ f[Len(prog)] = n
    /\ \A i \in 2..Len(prog) :
           f[i] = IF prog[i]["Nombre STD"] = prog[i - 1]["Nombre STD"]
                  THEN f[i - 1] ELSE f[i - 1] + 1

ToneladasDeFilas(prog, f, g) ==
    Suma([k \in 1..Len(prog) |-> IF f[k] = g THEN prog[k]["PROGR"] ELSE 0])

ToneladasTotales(prog) == Suma([k \in 1..Len(prog) |-> prog[k]["PROGR"]])

-----------------------------------------------------------------------------
(* Utilaje changes along the program *)

\* C28: a change between consecutive blocks is recorded only when both
\* products have catalogue rows and at least one component changes: every
\* recorded change counts at least one changed component, and the metric
\* "Cambios con Utilaje" equals the metric "Cambios de Producto".
C28_CambiosConUtilaje ==
    /\ \A k \in 1..Len(cambios_utilaje) :
           /\ cambios_utilaje[k].ComponentesQueCambian >= 1
           /\ cambios_utilaje[k].ComponentesQueCambian = Len(cambios_utilaje[k].Componentes)
           /\ cambios_utilaje[k].ProductoOrigen \in Columna(df_ddp, "Producto")
           /\ cambios_utilaje[k].ProductoDestino \in Columna(df_ddp, "Producto")
           /\ cambios_utilaje[k].ProductoOrigen # cambios_utilaje[k].ProductoDestino
    /\ metricas_utilaje.CambiosConUtilaje = metricas_utilaje.CambiosDeProducto
    /\ metricas_utilaje.CambiosDeProducto = Len(cambios_utilaje)

\* a program of three blocks analysed, both of its changes recorded
C28_Testigo ==
    /\ metricas_utilaje.TotalProductos = 3
    /\ Len(cambios_utilaje) = 2
    /\ metricas_utilaje.CambiosConUtilaje = 2

\* C29: for every pair of catalogued products and every component, the
\* analysis along the program lists the component as changing between the
\* two products exactly when the manual comparison of the same pair marks
\* the component as different.
C29_MismoCriterio ==
    (/\ metricas_utilaje # SinMetricas
     /\ seleccion_utilaje # <<>>
     /\ seleccion_utilaje[1] # seleccion_utilaje[2])
    => LET bloques == df_programa_utilaje(df_prog)
       IN  \A i \in 1..(Len(bloques) - 1) :
               (/\ bloques[i]["Nombre STD"] = seleccion_utilaje[1]
                /\ bloques[i + 1]["Nombre STD"] = seleccion_utilaje[2])
               => \A comp \in Rango(componentes_disponibles) :
                      (\E k \in 1..Len(cambios_utilaje) :
                           /\ cambios_utilaje[k].Secuencia = i
                           /\ comp \in Rango(cambios_utilaje[k].Componentes))
                      <=> (\E j \in 1..Len(df_comparacion) :
                               /\ df_comparacion[j].Componente = comp
                               /\ df_comparacion[j].Diferente = "Si")

-----------------------------------------------------------------------------
(* A program without tonnage *)

\* C22: the tonnage column of the program is optional: for a program with
\* the product column and no "PROGR" column, no program-based analysis
\* (sequence, maestranza summary, utilaje along the program) ends on the
\* error of the missing column.
C22_ToneladasOpcionales ==
    (df_prog # <<>> /\ "PROGR" \notin DOMAIN df_prog[1])
    => vista \notin {"maestranza sin PROGR", "utilaje sin PROGR"}

-----------------------------------------------------------------------------
(* The page from the load of the reference data on *)

ArchivosCarga ==
    [ddp : {Ilegible,
            Leido(<<Fila("X100", "M2", "12", "R1"), Fila("Y200", "M2", "14", "R2")>>),
            Leido(<<Fila("X100", "M2", "12", "R1")>>)},
     tiempo : {Ilegible, Leido(<<>>), Leido(<<FilaTiempo("X100", "Y200", 45)>>)},
     desbaste : {Ilegible, Leido(<<>>)}]

InitCarga ==
    /\ archivos \in ArchivosCarga
    /\ datos_base = SinCargar
    /\ df_ddp = <<>>
    /\ df_tiempo = <<>>
    /\ df_desbaste = <<>>
    /\ df_prog \in {ProgramaSinToneladas,
                    <<FilaProgramaToneladas("X100", 5), FilaProgramaToneladas("Y200", 7)>>}
    /\ df_cambios = <<>>
    /\ InitVistas

\* main goes on to the tabs only past the st.stop() of line 354
DatosCargados == datos_base # SinCargar /\ ~PaginaDetenida(datos_base)

NextCarga ==
    \/ CargarDatos
    \/ DatosCargados /\ \E a \in Productos, b \in Productos : ComparadorManual(a, b)
    \/ DatosCargados /\ SecuenciaPrograma
    \/ DatosCargados /\ MaestranzaPrograma
    \/ DatosCargados /\ UtilajePrograma

SpecCarga == InitCarga /\ [][NextCarga]_vars

\* C30: cargar_datos returns either the three tables or three None, never
\* a partial set, and when one of the three files fails to load the page
\* stops before any comparison or analysis view is shown.
C30_TodoONada ==
    /\ datos_base = SinCargar => vista = "inicio"
    /\ datos_base # SinCargar =>
          /\ \/ \A k \in 1..3 : datos_base[k] = Nada
             \/ \A k \in 1..3 : datos_base[k] # Nada
          /\ (\E key \in Rango(ClavesArchivos) : archivos[key].error) =>
                 /\ \A k \in 1..3 : datos_base[k] = Nada
                 /\ vista = "detenido"
                 /\ seleccion = <<>>
                 /\ resumen = <<>>
                 /\ df_maestranza = <<>>
                 /\ metricas_utilaje = SinMetricas
          /\ (\A key \in Rango(ClavesArchivos) : ~archivos[key].error) =>
                 datos_base = <<Algun(archivos["ddp"].tabla),
                                Algun(archivos["tiempo"].tabla),
                                Algun(archivos["desbaste"].tabla)>>

\* the catalogue was read and the time table was not: the page is stopped
C30_Testigo ==
    /\ ~archivos["ddp"].error
    /\ archivos["tiempo"].error
    /\ ~archivos["desbaste"].error
    /\ datos_base = <<Nada, Nada, Nada>>
    /\ vista = "detenido"

-----------------------------------------------------------------------------
(* Product ids as they are written in the program *)

\* ids of the program: as in the catalogue, in lower case, with a space before
Identificadores == {"X100", "x100", " X100", "Y200"}

\* str.strip().upper() on the ids above
Normalizar(id) ==
    CASE id = "x100" -> "X100"
      [] id = " X100" -> "X100"
      [] OTHER -> id

ProgramasIdentificadores ==
    {[k \in 1..Len(q) |-> FilaProgramaToneladas(q[k], 5)] :
        q \in SeqHasta(Identificadores, MaxBloques) \ {<<>>}}

InitIdentificadores ==
    /\ df_ddp = <<Fila("X100", "M2", "12", "R1"), Fila("Y200", "M2", "14", "R2")>>
    /\ df_tiempo = <<FilaTiempo("X100", "Y200", 45)>>
    /\ df_prog \in ProgramasIdentificadores
    /\ df_cambios = <<>>
    /\ df_desbaste = <<>>
    /\ InitResultados

NextIdentificadores ==
    \/ SecuenciaPrograma
    \/ MaestranzaPrograma
    \/ UtilajePrograma

SpecIdentificadores == InitIdentificadores /\ [][NextIdentificadores]_vars

\* C21: the identifiers are normalised on load (surrounding whitespace
\* trimmed, upper case), so a product id of the program that differs from an
\* id of the catalogue or of the time table only by case or by surrounding
\* whitespace is that product for the lookup of the time, for the comparison
\* of the channel codes and for the family of the summary, and two rows that
\* differ only so are no change of product.
C21_IdentificadoresNormalizados ==
    \A i \in 1..Len(resumen) :
        LET origen == resumen[i]["Producto Origen"]
            destino == resumen[i]["Producto Destino"]
        IN  /\ Normalizar(origen) # Normalizar(destino)
            /\ resumen[i]["Tiempo estimado"]
                   = obtener_tiempo_cambio(df_tiempo, Normalizar(origen), Normalizar(destino))
            /\ resumen[i]["Cambios Codigo Canal"]
                   = CambiosCodigoCanal(Normalizar(origen), Normalizar(destino))
            /\ resumen[i]["Familia"]
                   = <<FamiliaProducto(Normalizar(origen)), "->",
                       FamiliaProducto(Normalizar(destino))>>

=============================================================================
